---- MODULE Spec2Model ----
(***************************************************************************)
(* A model of CompactBilinearPooling.py: the construction of the two       *)
(* count-sketch matrices and the forward transform (flatten, project,      *)
(* Fourier transform, element-wise product, inverse transform, reshape,    *)
(* optional sum-pooling).                                                  *)
(*                                                                         *)
(* Tensors are records [shape, data]: shape is the sequence of extents,    *)
(* data the elements in row-major (contiguous) order. Indices are 0-based  *)
(* as in the source; TLA+ sequences are 1-based, hence the +1's.           *)
(*                                                                         *)
(* Line 57 and line 67 of the source close one parenthesis too many; the   *)
(* model reads the two statements with that parenthesis dropped.           *)
(***************************************************************************)
EXTENDS Integers, Sequences, FiniteSets, TLC

VARIABLES self, built, rng, ctor, call, gsm

vars == <<self, built, rng, ctor, call, gsm>>

(***************************************************************************)
(* Bounds of the model.                                                    *)
(***************************************************************************)
\* longest bucket_index / sign array handed to the constructor
MaxLen == 2
\* largest channel count (input_dim1, input_dim2 and the inputs' dim 1)
MaxChan == 2
\* largest batch_size, height and width of an input
MaxSide == 2
\* largest batch_size * height * width of one input
MaxPixels == 4

\* output_dim values: those whose roots of unity are 1, -1, i, -i, so that
\* the Fourier transform is exact over the integers
OutputDims == {2, 4}

(***************************************************************************)
(* Tensor arithmetic (torch).                                              *)
(***************************************************************************)
\* s[1] + ... + s[k]
RECURSIVE SumUpTo(_, _)
SumUpTo(s, k) == IF k = 0 THEN 0 ELSE SumUpTo(s, k - 1) + s[k]

SeqSum(s) == SumUpTo(s, Len(s))

RECURSIVE Prod(_)
Prod(s) == IF s = <<>> THEN 1 ELSE Head(s) * Prod(Tail(s))

\* the strides of a contiguous tensor of this shape
Strides(shape) ==
    [k \in 1..Len(shape) |-> Prod(SubSeq(shape, k + 1, Len(shape)))]

\* position of the element at index idx (0-based) in the row-major data,
\* over the first k dimensions
RECURSIVE RowMajor(_, _, _)
RowMajor(shape, idx, k) ==
    IF k = 0 THEN 0 ELSE RowMajor(shape, idx, k - 1) * shape[k] + idx[k]

Offset(shape, idx) == RowMajor(shape, idx, Len(shape))

\* the index (0-based) of the element at position f of the row-major data
Unravel(shape, strides, f) ==
    [k \in 1..Len(shape) |-> (f \div strides[k]) % shape[k]]

At(t, idx) == t.data[Offset(t.shape, idx) + 1]

\* the element (i, j) of a 2-D tensor
At2(t, i, j) == t.data[i * t.shape[2] + j + 1]

numel(t) == Prod(t.shape)

\* the value of a name that holds no tensor (a real 0-dim tensor has one element)
NoTensor == [shape |-> <<>>, data |-> <<>>]

\* the tensor of this shape whose element at idx is F(idx); SubSeq turns
\* the function into an explicit sequence of its elements
TensorOf(shape, strides, n, F(_)) ==
    [shape |-> shape,
     data  |-> SubSeq([f \in 1..n |-> F(Unravel(shape, strides, f - 1))], 1, n)]

Tensor(shape, F(_)) == TensorOf(shape, Strides(shape), Prod(shape), F)

zeros(shape) == Tensor(shape, LAMBDA idx : 0)

\* t.permute(dims).contiguous(): dimension k of the result is dimension
\* dims[k] of t
permute(t, dims) ==
    LET shape == [k \in 1..Len(dims) |-> t.shape[dims[k] + 1]]
        src(idx) == [m \in 1..Len(dims) |->
                        idx[CHOOSE k \in 1..Len(dims) : dims[k] = m - 1]]
    IN  Tensor(shape, LAMBDA idx : At(t, src(idx)))

\* the size a view resolves to: one -1 entry is inferred from the rest
ViewShape(t, size) ==
    LET known == Prod([k \in 1..Len(size) |->
                          IF size[k] = -1 THEN 1 ELSE size[k]])
    IN  [k \in 1..Len(size) |->
            IF size[k] = -1 THEN numel(t) \div known ELSE size[k]]

\* t.view(size) raises RuntimeError unless the size holds numel(t) elements
ViewOk(t, size) ==
    /\ \A k \in 1..Len(size) : size[k] = -1 \/ size[k] >= 0
    /\ Prod(ViewShape(t, size)) = numel(t)

view(t, size) == [shape |-> ViewShape(t, size), data |-> t.data]

\* a.mm(b) raises RuntimeError unless the inner extents agree
MmOk(a, b) == Len(a.shape) = 2 /\ Len(b.shape) = 2 /\ a.shape[2] = b.shape[1]

mm(a, b) ==
    Tensor(<<a.shape[1], b.shape[2]>>,
           LAMBDA idx : SumUpTo([k \in 1..a.shape[2] |->
                                    At2(a, idx[1], k - 1)
                                  * At2(b, k - 1, idx[2])], a.shape[2]))

\* element-wise operations of two [n, d] tensors broadcast a leading extent
\* of 1; any other disagreement raises RuntimeError
BroadcastOk(a, b) ==
    /\ Len(a.shape) = 2 /\ Len(b.shape) = 2
    /\ a.shape[2] = b.shape[2]
    /\ (a.shape[1] = b.shape[1] \/ a.shape[1] = 1 \/ b.shape[1] = 1)

Max(m, n) == IF m >= n THEN m ELSE n

Pointwise(a, b, Op(_, _)) ==
    LET row(t, i) == IF t.shape[1] = 1 THEN 0 ELSE i
    IN  Tensor(<<Max(a.shape[1], b.shape[1]), a.shape[2]>>,
               LAMBDA idx : Op(At2(a, row(a, idx[1]), idx[2]),
                               At2(b, row(b, idx[1]), idx[2])))

mul(a, b) == Pointwise(a, b, LAMBDA x, y : x * y)
sub(a, b) == Pointwise(a, b, LAMBDA x, y : x - y)
add(a, b) == Pointwise(a, b, LAMBDA x, y : x + y)

\* t.sum(dim=d): dimension d (0-based) is summed away
sum(t, d) ==
    LET shape == SubSeq(t.shape, 1, d) \o SubSeq(t.shape, d + 2, Len(t.shape))
        full(idx, j) == SubSeq(idx, 1, d) \o <<j>> \o SubSeq(idx, d + 1, Len(idx))
    IN  Tensor(shape,
               LAMBDA idx : SeqSum([j \in 1..t.shape[d + 1] |->
                                       At(t, full(idx, j - 1))]))

(***************************************************************************)
(* The Fourier transform over the last dimension of an [n, d] tensor       *)
(* (pytorch_fft). With d dividing 4, exp(2 pi i q / d) is one of 1, i, -1, *)
(* -i, and the transform stays in the integers.                            *)
(***************************************************************************)
\* cos and sin of 2 pi q / d
Quarter(q, d) == (q * (4 \div d)) % 4
Cos(q, d) == IF Quarter(q, d) = 0 THEN 1 ELSE IF Quarter(q, d) = 2 THEN -1 ELSE 0
Sin(q, d) == IF Quarter(q, d) = 1 THEN 1 ELSE IF Quarter(q, d) = 3 THEN -1 ELSE 0

\* the real and the imaginary part of (x + i y) * exp(2 pi i q / d)
TurnRe(x, y, q, d) == x * Cos(q, d) - y * Sin(q, d)
TurnIm(x, y, q, d) == y * Cos(q, d) + x * Sin(q, d)

\* the transform of the rows of (re + i im) with the kernel
\* exp(2 pi i dir j k / d): part 1 of the result is real, part 2 imaginary
Dft(re, im, d, dir) ==
    <<Tensor(re.shape, LAMBDA idx :
          SumUpTo([j \in 1..d |-> TurnRe(At2(re, idx[1], j - 1),
                                         At2(im, idx[1], j - 1),
                                         dir * (j - 1) * idx[2], d)], d)),
      Tensor(re.shape, LAMBDA idx :
          SumUpTo([j \in 1..d |-> TurnIm(At2(re, idx[1], j - 1),
                                         At2(im, idx[1], j - 1),
                                         dir * (j - 1) * idx[2], d)], d))>>

\* X[k] = sum_j x[j] * exp(-2 pi i j k / d)
Fft(re, im) == Dft(re, im, re.shape[2], -1)

\* x[j] = (1/d) sum_k X[k] * exp(2 pi i j k / d). The elements are kept as
\* numerators over the common denominator d (the last extent), which keeps
\* the arithmetic exact.
Ifft(re, im) == Dft(re, im, re.shape[2], 1)

(***************************************************************************)
(* Python values handed to the constructor: None, a 1-D numpy array, or a  *)
(* torch tensor (what torch.randint returns).                              *)
(***************************************************************************)
None == [kind |-> "None", size |-> 0, vals |-> <<>>]

ndarray(vals) == [kind |-> "ndarray", size |-> Len(vals), vals |-> vals]

\* the elements of a drawn tensor are never read (see lines 118, 119)
TorchTensor(n) == [kind |-> "Tensor", size |-> n, vals |-> <<>>]

(***************************************************************************)
(* The process-wide random generator of torch: the seed it was last given  *)
(* and the number of elements drawn since. Seed 0 stands for the seed the  *)
(* process starts with.                                                    *)
(***************************************************************************)
manual_seed(s) == [seed |-> s, drawn |-> 0]

randint(g, n) == [g EXCEPT !.drawn = @ + n]

(***************************************************************************)
(* generate_sketch_matrix, lines 104-130                                   *)
(***************************************************************************)
\* the index array with its two columns exchanged
SketchIndicesSwapped(rand_h) ==
    Tensor(<<Len(rand_h), 2>>,
           LAMBDA idx : IF idx[2] = 1 THEN idx[1] ELSE rand_h[idx[1] + 1])

\* lines 124-125: row i of the [input_dim, 2] index array is (i, rand_h[i])
SketchIndices(rand_h) ==
    Tensor(<<Len(rand_h), 2>>,
           LAMBDA idx : IF idx[2] = 0 THEN idx[1] ELSE rand_h[idx[1] + 1])

\* lines 128-130: the dense form of the sparse tensor whose k-th value sits
\* at (indices[0, k], indices[1, k]); values at one position add up
to_dense(indices, values, size) ==
    Tensor(size,
           LAMBDA idx : SeqSum([k \in 1..Len(values) |->
               IF /\ At2(indices, 0, k - 1) = idx[1]
                  /\ At2(indices, 1, k - 1) = idx[2]
               THEN values[k] ELSE 0]))

GsmRaise(exc, line) == [exc |-> exc, line |-> line, value |-> NoTensor]

\* The arrays of the model are 1-D arrays of small integers, which
\* astype(np.int64) and astype(np.float32) leave as they are; lines 118 and
\* 119 matter for what has no astype.
generate_sketch_matrix(rand_h, rand_s, output_dim) ==
    IF rand_h.kind # "ndarray"
    THEN GsmRaise("AttributeError", 118)     \* a Tensor has no astype
    ELSE IF rand_s.kind # "ndarray"
    THEN GsmRaise("AttributeError", 119)
    ELSE IF Len(rand_h.vals) # Len(rand_s.vals)
    THEN GsmRaise("AssertionError", 120)
    ELSE IF ~ \A i \in 1..Len(rand_h.vals) :
                rand_h.vals[i] >= 0 /\ rand_h.vals[i] < output_dim
    THEN GsmRaise("AssertionError", 121)
    ELSE LET input_dim == Len(rand_h.vals)
             indices   == SketchIndices(rand_h.vals)
         IN  [exc   |-> "none",
              line  |-> 130,
              value |-> to_dense(permute(indices, <<1, 0>>), rand_s.vals,
                                 <<input_dim, output_dim>>)]

(***************************************************************************)
(* __init__, lines 39-70. The device is left out: it does not enter any    *)
(* value.                                                                  *)
(***************************************************************************)
NoInstance ==
    [input_dim1 |-> 0, input_dim2 |-> 0, output_dim |-> 0, sum_pool |-> FALSE,
     sparse_sketch_matrix1 |-> NoTensor, sparse_sketch_matrix2 |-> NoTensor]

\* the outcome of CompactBilinearPooling(**a) with the generator in state g:
\* the exception raised (or "none"), the line it left from, the instance
\* bound (none when the constructor raised) and the generator afterwards
CompactBilinearPooling(a, g) ==
    LET g1 == IF a.rand_h_1.kind = "None"
              THEN randint(manual_seed(1), a.input_dim1) ELSE g
        rand_h_1 == IF a.rand_h_1.kind = "None"
                    THEN TorchTensor(a.input_dim1) ELSE a.rand_h_1
        g2 == IF a.rand_s_1.kind = "None"
              THEN randint(manual_seed(3), a.input_dim1) ELSE g1
        rand_s_1 == IF a.rand_s_1.kind = "None"
                    THEN TorchTensor(a.input_dim1) ELSE a.rand_s_1
        m1 == generate_sketch_matrix(rand_h_1, rand_s_1, a.output_dim)
        g3 == IF a.rand_h_2.kind = "None"
              THEN randint(manual_seed(5), a.input_dim2) ELSE g2
        rand_h_2 == IF a.rand_h_2.kind = "None"
                    THEN TorchTensor(a.input_dim2) ELSE a.rand_h_2
        g4 == IF a.rand_s_2.kind = "None"
              THEN randint(manual_seed(7), a.input_dim2) ELSE g3
        rand_s_2 == IF a.rand_s_2.kind = "None"
                    THEN TorchTensor(a.input_dim2) ELSE a.rand_s_2
        m2 == generate_sketch_matrix(rand_h_2, rand_s_2, a.output_dim)
    IN  IF m1.exc # "none"
        THEN [exc |-> m1.exc, line |-> m1.line, self |-> NoInstance, rng |-> g2]
        ELSE IF m2.exc # "none"
        THEN [exc |-> m2.exc, line |-> m2.line, self |-> NoInstance, rng |-> g4]
        ELSE [exc  |-> "none",
              line |-> 70,
              self |-> [input_dim1 |-> a.input_dim1,
                        input_dim2 |-> a.input_dim2,
                        output_dim |-> a.output_dim,
                        sum_pool   |-> a.sum_pool,
                        sparse_sketch_matrix1 |-> m1.value,
                        sparse_sketch_matrix2 |-> m2.value],
              rng  |-> g4]

(***************************************************************************)
(* forward, lines 72-102                                                   *)
(***************************************************************************)
\* the locals of one call of forward; a local not yet assigned holds NoTensor
Frame0 ==
    [exc |-> "none", line |-> 0,
     bottom1_flat |-> NoTensor, bottom2_flat |-> NoTensor,
     sketch_1 |-> NoTensor, sketch_2 |-> NoTensor,
     fft1_real |-> NoTensor, fft1_imag |-> NoTensor,
     fft2_real |-> NoTensor, fft2_imag |-> NoTensor,
     fft_product_real |-> NoTensor, fft_product_imag |-> NoTensor,
     cbp_flat |-> NoTensor, cbp |-> NoTensor, out |-> NoTensor]

Raise(frame, exc, line) == [frame EXCEPT !.exc = exc, !.line = line]

\* the assertion without its second conjunct
ChannelsOkFirstOnly(s, bottom1, bottom2) == bottom1.shape[2] = s.input_dim1

\* lines 77-78
ChannelsOk(s, bottom1, bottom2) ==
    bottom1.shape[2] = s.input_dim1 /\ bottom2.shape[2] = s.input_dim2

\* the flattening without the permutation to channel-last
FlattenUnpermuted(bottom, input_dim) == view(bottom, <<-1, input_dim>>)

\* lines 82, 83: bottom.permute(0, 2, 3, 1).contiguous().view(-1, input_dim)
Flatten(bottom, input_dim) ==
    view(permute(bottom, <<0, 2, 3, 1>>), <<-1, input_dim>>)

\* lines 91-93
ProductReal(r1, i1, r2, i2) == sub(mul(r1, r2), mul(i1, i2))

ProductImag(r1, i1, r2, i2) == add(mul(r1, r2), mul(i1, i2))

\* the pooling with the second sum over the dimension after the width
SumPoolLastDim(cbp) == sum(sum(cbp, 1), 2)

\* line 100
SumPool(cbp) == sum(sum(cbp, 1), 1)

\* lines 77-78: the assertion
Asserted(s, bottom1, bottom2) ==
    IF ChannelsOk(s, bottom1, bottom2)
    THEN Frame0
    ELSE Raise(Frame0, "AssertionError", 77)

\* line 82
Flattened1(s, bottom1, f) ==
    IF f.exc # "none" THEN f
    ELSE IF ~ViewOk(bottom1, <<-1, s.input_dim1>>)
    THEN Raise(f, "RuntimeError", 82)
    ELSE [f EXCEPT !.bottom1_flat = Flatten(bottom1, s.input_dim1)]

\* line 83
Flattened2(s, bottom2, f) ==
    IF f.exc # "none" THEN f
    ELSE IF ~ViewOk(bottom2, <<-1, s.input_dim2>>)
    THEN Raise(f, "RuntimeError", 83)
    ELSE [f EXCEPT !.bottom2_flat = Flatten(bottom2, s.input_dim2)]

\* line 85
Projected1(s, f) ==
    IF f.exc # "none" THEN f
    ELSE IF ~MmOk(f.bottom1_flat, s.sparse_sketch_matrix1)
    THEN Raise(f, "RuntimeError", 85)
    ELSE [f EXCEPT !.sketch_1 = mm(f.bottom1_flat, s.sparse_sketch_matrix1)]

\* line 86
Projected2(s, f) ==
    IF f.exc # "none" THEN f
    ELSE IF ~MmOk(f.bottom2_flat, s.sparse_sketch_matrix2)
    THEN Raise(f, "RuntimeError", 86)
    ELSE [f EXCEPT !.sketch_2 = mm(f.bottom2_flat, s.sparse_sketch_matrix2)]

SetFft1(f, fft) == [f EXCEPT !.fft1_real = fft[1], !.fft1_imag = fft[2]]

SetFft2(f, fft) == [f EXCEPT !.fft2_real = fft[1], !.fft2_imag = fft[2]]

\* line 88
Transformed1(f) ==
    IF f.exc # "none" THEN f
    ELSE SetFft1(f, Fft(f.sketch_1, zeros(f.sketch_1.shape)))

\* line 89
Transformed2(f) ==
    IF f.exc # "none" THEN f
    ELSE SetFft2(f, Fft(f.sketch_2, zeros(f.sketch_2.shape)))

\* lines 91-93
Multiplied(f) ==
    IF f.exc # "none" THEN f
    ELSE IF ~BroadcastOk(f.fft1_real, f.fft2_real)
    THEN Raise(f, "RuntimeError", 91)
    ELSE [f EXCEPT
            !.fft_product_real = ProductReal(f.fft1_real, f.fft1_imag,
                                             f.fft2_real, f.fft2_imag),
            !.fft_product_imag = ProductImag(f.fft1_real, f.fft1_imag,
                                             f.fft2_real, f.fft2_imag)]

\* line 95
Inverted(f) ==
    IF f.exc # "none" THEN f
    ELSE [f EXCEPT !.cbp_flat = Ifft(f.fft_product_real, f.fft_product_imag)[1]]

\* lines 80, 97: batch_size, height and width are those of bottom1
Reshaped(s, bottom1, f) ==
    IF f.exc # "none" THEN f
    ELSE IF ~ViewOk(f.cbp_flat, <<bottom1.shape[1], bottom1.shape[3],
                                  bottom1.shape[4], s.output_dim>>)
    THEN Raise(f, "RuntimeError", 97)
    ELSE [f EXCEPT !.cbp = view(f.cbp_flat,
                                <<bottom1.shape[1], bottom1.shape[3],
                                  bottom1.shape[4], s.output_dim>>)]

\* lines 99-102
Returned(s, f) ==
    IF f.exc # "none" THEN f
    ELSE [f EXCEPT !.line = 102,
                   !.out = IF s.sum_pool THEN SumPool(f.cbp) ELSE f.cbp]

\* the locals of forward(bottom1, bottom2) on instance s when it returns or
\* raises
forward(s, bottom1, bottom2) ==
    Returned(s,
     Reshaped(s, bottom1,
      Inverted(
       Multiplied(
        Transformed2(
         Transformed1(
          Projected2(s,
           Projected1(s,
            Flattened2(s, bottom2,
             Flattened1(s, bottom1,
              Asserted(s, bottom1, bottom2)))))))))))

(***************************************************************************)
(* Inputs of the model.                                                    *)
(***************************************************************************)
\* bucket_index arrays of length n: every channel in its own bucket (as far
\* as output_dim allows), every channel in the last bucket
BucketArrays(n, output_dim) ==
    { [i \in 1..n |-> (i - 1) % output_dim],
      [i \in 1..n |-> output_dim - 1] }

\* sign arrays of length n: alternating from +1, all -1
SignArrays(n) ==
    { [i \in 1..n |-> IF i % 2 = 1 THEN 1 ELSE -1],
      [i \in 1..n |-> -1] }

\* arrays that break the documented domain at their last element
BadBucketArrays(n, output_dim) == { [i \in 1..n |-> IF i = n THEN output_dim ELSE 0] }

BadSignArrays(n) == { [i \in 1..n |-> IF i = n THEN 2 ELSE 1] }

\* the 4-D input shapes [batch_size, channels, height, width]
InputShapes ==
    { <<b, c, h, w>> : b \in 1..MaxSide, c \in 1..MaxChan,
                       h \in 1..MaxSide, w \in 1..MaxSide }

\* the element values of the inputs: a tensor is filled with one of these
\* sequences, repeated
Filling1 == <<1, -2, 3>>
Filling2 == <<2, 0, -1, 1, -3>>

Fill(shape, filling) ==
    [shape |-> shape,
     data  |-> [f \in 1..Prod(shape) |-> filling[((f - 1) % Len(filling)) + 1]]]

Inputs(filling) ==
    { Fill(shape, filling) :
        shape \in { x \in InputShapes : x[1] * x[3] * x[4] <= MaxPixels } }

\* states of the process-wide generator a construction may start from
InitialRng == { [seed |-> s, drawn |-> s] : s \in {0, 1} }

Args(d1, d2, od, sp, h1, s1, h2, s2) ==
    [input_dim1 |-> d1, input_dim2 |-> d2, output_dim |-> od, sum_pool |-> sp,
     rand_h_1 |-> h1, rand_s_1 |-> s1, rand_h_2 |-> h2, rand_s_2 |-> s2]

NoArgs == Args(0, 0, 0, FALSE, None, None, None, None)

NoCtor == [done |-> FALSE, args |-> NoArgs, exc |-> "none", line |-> 0,
           rng0 |-> manual_seed(0)]

\* the last call of forward: its arguments, its locals at the end, and
\* whether another call came before it
NoCall == [done |-> FALSE, later |-> FALSE, bottom1 |-> NoTensor,
           bottom2 |-> NoTensor, frame |-> Frame0]

NoGsm == [done |-> FALSE, rand_h |-> None, rand_s |-> None, output_dim |-> 0,
          ret |-> GsmRaise("none", 0)]

(***************************************************************************)
(* SpecSketch: generate_sketch_matrix applied to every pair of arrays of   *)
(* length at most MaxLen.                                                  *)
(***************************************************************************)
Arrays(S) == UNION { [1..n -> S] : n \in 1..MaxLen }

InitSketch ==
    /\ self = NoInstance /\ built = NoInstance /\ rng = manual_seed(0)
    /\ ctor = NoCtor /\ call = NoCall
    /\ \E od \in OutputDims :
       \E h \in Arrays(-1..od), s \in Arrays({-1, 0, 1, 2}) :
          gsm = [NoGsm EXCEPT !.rand_h = ndarray(h), !.rand_s = ndarray(s),
                              !.output_dim = od]

GenerateSketch ==
    /\ ~gsm.done
    /\ gsm' = [gsm EXCEPT !.done = TRUE,
                 !.ret = generate_sketch_matrix(gsm.rand_h, gsm.rand_s,
                                                gsm.output_dim)]
    /\ UNCHANGED <<self, built, rng, ctor, call>>

NextSketch == GenerateSketch

SpecSketch == InitSketch /\ [][NextSketch]_vars

(***************************************************************************)
(* SpecBuild: one construction, from a process that holds no instance.     *)
(***************************************************************************)
\* what a caller passes for rand_h_*: nothing, or an array
BuildBuckets(od) ==
    {None} \cup { ndarray(a) : a \in UNION { BucketArrays(n, od) \cup
                                            BadBucketArrays(n, od) :
                                            n \in 1..MaxLen } }

BuildSigns ==
    {None} \cup { ndarray(a) : a \in UNION { SignArrays(n) \cup BadSignArrays(n) :
                                            n \in 1..MaxLen } }

Construct(a) ==
    LET r == CompactBilinearPooling(a, rng)
    IN  /\ ctor' = [done |-> TRUE, args |-> a, exc |-> r.exc, line |-> r.line,
                    rng0 |-> rng]
        /\ self' = r.self
        /\ built' = r.self
        /\ rng' = r.rng
        /\ UNCHANGED <<call, gsm>>

InitBuild ==
    /\ self = NoInstance /\ built = NoInstance /\ rng \in InitialRng
    /\ ctor = NoCtor /\ call = NoCall /\ gsm = NoGsm

Build ==
    /\ ~ctor.done
    /\ \E d1 \in 1..MaxChan, d2 \in 1..MaxChan, od \in OutputDims :
       \E h1 \in BuildBuckets(od), s1 \in BuildSigns,
          h2 \in BuildBuckets(od), s2 \in BuildSigns :
          Construct(Args(d1, d2, od, TRUE, h1, s1, h2, s2))

NextBuild == Build

SpecBuild == InitBuild /\ [][NextBuild]_vars

(***************************************************************************)
(* Spec: forward calls on a constructed instance.                          *)
(***************************************************************************)
\* the arrays the instances are built from: stream 1 spreads its channels
\* over the buckets with alternating signs, stream 2 puts them all in the
\* last bucket with sign -1
Stream1(n, od) ==
    <<ndarray([i \in 1..n |-> (i - 1) % od]),
      ndarray([i \in 1..n |-> IF i % 2 = 1 THEN 1 ELSE -1])>>

Stream2(n, od) ==
    <<ndarray([i \in 1..n |-> od - 1]), ndarray([i \in 1..n |-> -1])>>

\* the constructor does not compare the arrays' length with input_dim, so
\* an instance may hold a sketch matrix of another height
Init ==
    /\ call = NoCall /\ gsm = NoGsm
    /\ \E d1 \in 1..MaxChan, d2 \in 1..MaxChan, od \in OutputDims,
          sp \in BOOLEAN :
       \E n1 \in {d1, (d1 % MaxLen) + 1}, n2 \in {d2} :
          LET p1 == Stream1(n1, od)
              p2 == Stream2(n2, od)
              a == Args(d1, d2, od, sp, p1[1], p1[2], p2[1], p2[2])
              r == CompactBilinearPooling(a, manual_seed(0))
          IN  /\ r.exc = "none"
              /\ ctor = [done |-> TRUE, args |-> a, exc |-> r.exc,
                         line |-> r.line, rng0 |-> manual_seed(0)]
              /\ self = r.self
              /\ built = r.self
              /\ rng = r.rng

\* forward as it would be if it cleared the pooling flag of the instance
ForwardStateful(bottom1, bottom2) ==
    /\ call' = [done |-> TRUE, later |-> call.done, bottom1 |-> bottom1,
                bottom2 |-> bottom2, frame |-> forward(self, bottom1, bottom2)]
    /\ self' = [self EXCEPT !.sum_pool = FALSE]
    /\ UNCHANGED <<built, rng, ctor, gsm>>

\* forward assigns no attribute of self and calls no in-place operation
ForwardCall(bottom1, bottom2) ==
    /\ call' = [done |-> TRUE, later |-> call.done, bottom1 |-> bottom1,
                bottom2 |-> bottom2, frame |-> forward(self, bottom1, bottom2)]
    /\ UNCHANGED <<self, built, rng, ctor, gsm>>

\* the first call takes any two inputs; a later call repeats the inputs of
\* the call before it or takes inputs of the exchanged shapes
NextInputs ==
    IF ~call.done
    THEN Inputs(Filling1) \X Inputs(Filling2)
    ELSE { <<call.bottom1, call.bottom2>>,
           <<Fill(call.bottom2.shape, Filling1),
             Fill(call.bottom1.shape, Filling2)>> }

Forward == \E p \in NextInputs : ForwardCall(p[1], p[2])

Next == Forward

Spec == Init /\ [][Next]_vars

(***************************************************************************)
(* Properties.                                                             *)
(***************************************************************************)
\* the last call of forward returned
CallReturned == call.done /\ call.frame.exc = "none"

\* the two inputs of the last call agree in batch size, height and width
SameExtent ==
    /\ call.bottom1.shape[1] = call.bottom2.shape[1]
    /\ call.bottom1.shape[3] = call.bottom2.shape[3]
    /\ call.bottom1.shape[4] = call.bottom2.shape[4]

\* the channels of the last call's inputs are those of the instance
SameChannels ==
    /\ call.bottom1.shape[2] = self.input_dim1
    /\ call.bottom2.shape[2] = self.input_dim2

\* the sketch matrices of the instance have one row per input channel
SketchesFit ==
    /\ self.sparse_sketch_matrix1.shape = <<self.input_dim1, self.output_dim>>
    /\ self.sparse_sketch_matrix2.shape = <<self.input_dim2, self.output_dim>>

\* the elements of the inputs and of the 4-D and 2-D results, by index
In4(t, b, c, h, w) ==
    t.data[((b * t.shape[2] + c) * t.shape[3] + h) * t.shape[4] + w + 1]

In2(t, n, k) == t.data[n * t.shape[2] + k + 1]

\* C1: in forward, the product of the two transforms is the complex
\* product: its real part is r1*r2 - i1*i2 and its imaginary part is
\* r1*i2 + i1*r2, at every position.
C1_ComplexProduct ==
    CallReturned /\ SameExtent =>
        LET f == call.frame
        IN  \A n \in 0..(f.fft1_real.shape[1] - 1),
               k \in 0..(f.fft1_real.shape[2] - 1) :
               LET r1 == In2(f.fft1_real, n, k)
                   i1 == In2(f.fft1_imag, n, k)
                   r2 == In2(f.fft2_real, n, k)
                   i2 == In2(f.fft2_imag, n, k)
               IN  /\ In2(f.fft_product_real, n, k) = r1 * r2 - i1 * i2
                   /\ In2(f.fft_product_imag, n, k) = r1 * i2 + i1 * r2

\* C2: forward fails at its start, with nothing computed and no output,
\* whenever the batch size, height or width of bottom1 differs from that of
\* bottom2 (the channels being those of the instance, and the instance
\* built from arrays of the length of its channel dimensions).
C2_ExtentMismatchRejected ==
    call.done /\ SketchesFit /\ SameChannels /\ ~SameExtent =>
        /\ call.frame.exc # "none"
        /\ call.frame = Raise(Frame0, call.frame.exc, call.frame.line)

\* C6: for inputs [B, input_dim1, H, W] and [B, input_dim2, H, W], forward
\* returns (the sketch matrices fitting the inputs); without sum_pool the
\* result has shape [B, H, W, output_dim], with sum_pool it has shape
\* [B, output_dim] and its element (b, k) is the sum over h and w of the
\* element (b, h, w, k) of the unpooled result for the same inputs.
C6_OutputShapeAndPooling ==
    call.done /\ SameChannels /\ SameExtent =>
        LET B == call.bottom1.shape[1]
            H == call.bottom1.shape[3]
            W == call.bottom1.shape[4]
            D == self.output_dim
            out == call.frame.out
            unpooled == forward([self EXCEPT !.sum_pool = FALSE],
                                call.bottom1, call.bottom2).out
        IN  /\ SketchesFit => call.frame.exc = "none"
            /\ call.frame.exc = "none" =>
                 /\ unpooled.shape = <<B, H, W, D>>
                 /\ ~self.sum_pool => out.shape = <<B, H, W, D>>
                 /\ self.sum_pool =>
                      /\ out.shape = <<B, D>>
                      /\ Len(out.data) = B * D
                      /\ \A b \in 0..(B - 1), k \in 0..(D - 1) :
                            out.data[b * D + k + 1] =
                              SeqSum([h \in 1..H |-> SeqSum([w \in 1..W |->
                                unpooled.data[((b * H + h - 1) * W + w - 1) * D
                                              + k + 1]])])

C6_Witness ==
    /\ CallReturned /\ SameChannels /\ SameExtent /\ self.sum_pool
    /\ call.bottom1.shape[3] > 1 /\ call.bottom1.shape[4] > 1
    /\ \E i \in 1..Len(call.frame.out.data) : call.frame.out.data[i] # 0

C9_ChannelMismatchRejected ==
    call.done /\ ~SameChannels =>
        /\ call.frame = Raise(Frame0, "AssertionError", 77)
        /\ self = built

C9_Witness ==
    /\ call.done
    /\ call.bottom1.shape[2] = self.input_dim1
    /\ call.bottom2.shape[2] # self.input_dim2
    /\ call.frame.exc = "AssertionError"

\* the input that holds only the channels of bottom at (b, h, w)
Pixel(bottom, b, h, w) ==
    [shape |-> <<1, bottom.shape[2], 1, 1>>,
     data  |-> [c \in 1..bottom.shape[2] |-> In4(bottom, b, c - 1, h, w)]]

\* C10: row (b*H + h)*W + w of each flattened input is the channel vector
\* of that input at (b, h, w), and the element (b, h, w, :) of the unpooled
\* result is what forward computes from the two channel vectors at
\* (b, h, w) alone.
C10_PerPixel ==
    CallReturned /\ SameExtent =>
        LET B == call.bottom1.shape[1]
            H == call.bottom1.shape[3]
            W == call.bottom1.shape[4]
            f == call.frame
        IN  /\ f.bottom1_flat.shape = <<B * H * W, self.input_dim1>>
            /\ f.bottom2_flat.shape = <<B * H * W, self.input_dim2>>
            /\ f.cbp.shape = <<B, H, W, self.output_dim>>
            /\ \A b \in 0..(B - 1), h \in 0..(H - 1), w \in 0..(W - 1) :
                  /\ \A c \in 0..(self.input_dim1 - 1) :
                        In2(f.bottom1_flat, (b * H + h) * W + w, c)
                          = In4(call.bottom1, b, c, h, w)
                  /\ \A c \in 0..(self.input_dim2 - 1) :
                        In2(f.bottom2_flat, (b * H + h) * W + w, c)
                          = In4(call.bottom2, b, c, h, w)
                  /\ LET one == forward(self, Pixel(call.bottom1, b, h, w),
                                        Pixel(call.bottom2, b, h, w))
                     IN  \A k \in 0..(self.output_dim - 1) :
                            In2(f.cbp_flat, (b * H + h) * W + w, k)
                              = In2(one.cbp_flat, 0, k)

C10_Witness ==
    /\ CallReturned /\ SameExtent
    /\ call.bottom1.shape[1] > 1 /\ call.bottom1.shape[3] > 1
    /\ self.input_dim1 > 1 /\ self.input_dim2 > 1
    /\ \E i \in 1..Len(call.frame.cbp.data) : call.frame.cbp.data[i] # 0
    /\ \E i \in 1..Len(call.frame.cbp.data) : call.frame.cbp.data[i] = 0

\* the constructor was given this array and it holds a value other than
\* +1 and -1
BadSign(a) ==
    a.kind = "ndarray" /\ \E i \in 1..Len(a.vals) : a.vals[i] \notin {1, -1}

\* C3: construction with a supplied sign sequence that holds a value other
\* than +1 or -1 raises and binds no instance (no sketch matrix).
C3_BadSignRejected ==
    ctor.done /\ (BadSign(ctor.args.rand_s_1) \/ BadSign(ctor.args.rand_s_2)) =>
        ctor.exc # "none" /\ self = NoInstance

\* all four arrays were supplied
Supplied ==
    /\ ctor.args.rand_h_1.kind = "ndarray" /\ ctor.args.rand_s_1.kind = "ndarray"
    /\ ctor.args.rand_h_2.kind = "ndarray" /\ ctor.args.rand_s_2.kind = "ndarray"

\* C4: construction with supplied bucket_index and sign sequences raises
\* unless both sequences of a stream have the length of that stream's
\* channel dimension (input_dim1 for stream 1, input_dim2 for stream 2).
C4_LengthMismatchRejected ==
    ctor.done /\ Supplied /\ ctor.exc = "none" =>
        /\ Len(ctor.args.rand_h_1.vals) = ctor.args.input_dim1
        /\ Len(ctor.args.rand_s_1.vals) = ctor.args.input_dim1
        /\ Len(ctor.args.rand_h_2.vals) = ctor.args.input_dim2
        /\ Len(ctor.args.rand_s_2.vals) = ctor.args.input_dim2

\* C8: construction leaves the process-wide random generator in the state
\* it found it in, with or without supplied arrays.
C8_GlobalRngUntouched == ctor.done => rng = ctor.rng0

\* the arrays handed to generate_sketch_matrix meet its documented domain
ValidSpec ==
    /\ Len(gsm.rand_h.vals) = Len(gsm.rand_s.vals)
    /\ \A i \in 1..Len(gsm.rand_h.vals) :
          gsm.rand_h.vals[i] \in 0..(gsm.output_dim - 1)
    /\ \A i \in 1..Len(gsm.rand_s.vals) : gsm.rand_s.vals[i] \in {1, -1}

\* C5: for bucket_index and sign of one length input_dim, the buckets in
\* [0, output_dim) and the signs +1 or -1, generate_sketch_matrix returns a
\* matrix of shape [input_dim, output_dim] whose element (i, bucket_index[i])
\* is sign[i] and whose other elements are 0: each row has exactly one
\* nonzero element, +1 or -1.
C5_SketchMatrix ==
    gsm.done /\ ValidSpec =>
        LET n == Len(gsm.rand_h.vals)
            D == gsm.output_dim
            m == gsm.ret.value
        IN  /\ gsm.ret.exc = "none"
            /\ m.shape = <<n, D>>
            /\ Len(m.data) = n * D
            /\ \A i \in 0..(n - 1) :
                  /\ \A j \in 0..(D - 1) :
                        m.data[i * D + j + 1] =
                          IF j = gsm.rand_h.vals[i + 1]
                          THEN gsm.rand_s.vals[i + 1] ELSE 0
                  /\ Cardinality({ j \in 0..(D - 1) :
                                     m.data[i * D + j + 1] # 0 }) = 1
                  /\ \A j \in 0..(D - 1) :
                        m.data[i * D + j + 1] \in {0, 1, -1}

C5_Witness ==
    /\ gsm.done /\ ValidSpec /\ gsm.ret.exc = "none"
    /\ Len(gsm.rand_h.vals) > 1
    /\ gsm.rand_h.vals[1] = gsm.rand_h.vals[2]
    /\ gsm.rand_s.vals[1] # gsm.rand_s.vals[2]

====
